---------------------------- MODULE Spec2Model ----------------------------
(***************************************************************************)
(* A model of the Traceroute-Wrapper repository.                           *)
(*                                                                         *)
(*   traceroute.py   parse_line, TracerouteResult (run_traceroute_program, *)
(*                   to_json, save_to_file), main                          *)
(*   view-results.py TracerouteData, graph_table, print_stats, graph_map   *)
(*                                                                         *)
(* Text is modelled character by character: a string is a sequence of      *)
(* one-character strings, so that splitting, stripping and the token       *)
(* classifiers are computed the way the Python code computes them.         *)
(* A float is represented by its value in hundredths (1.5 is 150); every   *)
(* numeric token the model draws has at most two fractional digits, so the *)
(* representation is exact.                                                *)
(***************************************************************************)
EXTENDS Integers, Sequences, FiniteSets, TLC

VARIABLES
    \* ---- one call of parse_line (SpecParse) ----
    p_version,      \* the TracerouteVersion argument
    p_line,         \* the line argument, a sequence of characters
    p_tries,        \* the expected_tries argument
    p_outcome       \* "pending", or what the call did: returned a dict or raised

parseVars == <<p_version, p_line, p_tries, p_outcome>>

VARIABLES
    \* ---- traceroute.py run after run against one output file (Spec) ----
    file,           \* the output file: NoFile, or the JSON object it holds
    tr_ver,         \* the installed traceroute's version
    r_pc,           \* where main is: idle, banner, loop, done, saved, aborted
    r_host,         \* the host argument
    r_cmd,          \* self._cmd
    r_tries,        \* self._number_of_tries
    r_description,  \* self._description
    r_result,       \* self._result
    r_timestamp,    \* self._result_timestamp
    r_start,        \* start, the time.time() taken before the banner is read
    r_seconds,      \* self._seconds_taken
    r_exc,          \* the exception that ended the run, "" when none
    now,            \* the clock, in hundredths of a second
    runs,           \* how many runs were started
    file_before     \* history variable: the file as it was when the run started

runVars == <<file, tr_ver, r_pc, r_host, r_cmd, r_tries, r_description,
             r_result, r_timestamp, r_start, r_seconds, r_exc, now, runs,
             file_before>>

VARIABLES
    \* ---- view-results.py on a loaded file (SpecStats, SpecMap) ----
    data,           \* TracerouteData._data: the JSON object json.load returned
    v_out           \* what the last call of an action function did

viewVars == <<data, v_out>>

VARIABLES
    \* ---- two processes in save_to_file on one output file (SpecSave) ----
    s_mutex,        \* whether the callers exclude one another around the save
    s_pc,           \* where each process is: idle, start, loaded, writing,
                    \* done, failed
    s_run,          \* each process's self._host and to_json()
    s_prev          \* each process's prev_data

saveVars == <<s_mutex, s_pc, s_run, s_prev>>

\* the variables of a run other than the file
runRest == <<tr_ver, r_pc, r_host, r_cmd, r_tries, r_description, r_result,
             r_timestamp, r_start, r_seconds, r_exc, now, runs, file_before>>

vars == <<parseVars, runVars, viewVars, saveVars>>

(***************************************************************************)
(* Bounds of the model.                                                    *)
(***************************************************************************)
\* the most whitespace-separated words on a line handed to parse_line
MaxWords == 5
\* the most runs of traceroute.py against the output file
MaxRuns == 2
\* the most hop lines the traceroute program prints in one run
MaxHops == 2
\* the most runs of one host in a file the statistics are taken of
MaxStatRuns == 2
\* the most runs of one host in a file the map is drawn of
MaxMapRuns == 2

(***************************************************************************)
(* Strings as character sequences.                                         *)
(***************************************************************************)
Digits == {"0", "1", "2", "3", "4", "5", "6", "7", "8", "9"}

DigitVal(c) ==
    CASE c = "0" -> 0 [] c = "1" -> 1 [] c = "2" -> 2 [] c = "3" -> 3
      [] c = "4" -> 4 [] c = "5" -> 5 [] c = "6" -> 6 [] c = "7" -> 7
      [] c = "8" -> 8 [] c = "9" -> 9

\* s[a..b], empty when a > b (Python's s[a-1:b])
Slice(s, a, b) == IF a > b THEN <<>> ELSE SubSeq(s, a, b)

\* str.count(c) for a one-character c
RECURSIVE CountChar(_, _)
CountChar(s, c) ==
    IF s = <<>> THEN 0
    ELSE (IF Head(s) = c THEN 1 ELSE 0) + CountChar(Tail(s), c)

\* str.split(sep) for a one-character sep: the pieces between the separators,
\* empty pieces kept
RECURSIVE SplitAt(_, _, _)
SplitAt(s, sep, cur) ==
    IF s = <<>> THEN <<cur>>
    ELSE IF Head(s) = sep THEN <<cur>> \o SplitAt(Tail(s), sep, <<>>)
    ELSE SplitAt(Tail(s), sep, Append(cur, Head(s)))

Split(s, sep) == SplitAt(s, sep, <<>>)

\* the value of a run of decimal digits
RECURSIVE DigitsVal(_)
DigitsVal(s) ==
    IF s = <<>> THEN 0
    ELSE DigitsVal(Slice(s, 1, Len(s) - 1)) * 10 + DigitVal(s[Len(s)])

AllDigits(s) == \A i \in 1..Len(s) : s[i] \in Digits

HasSign(s) == s # <<>> /\ s[1] \in {"-", "+"}

Unsigned(s) == IF HasSign(s) THEN Tail(s) ELSE s

\* int(s) does not raise ValueError: an optional sign and at least one digit
\* (the model's alphabet holds no whitespace or underscore inside a word)
IsInt(s) == Unsigned(s) # <<>> /\ AllDigits(Unsigned(s))

\* int(s)
IntVal(s) ==
    IF s # <<>> /\ s[1] = "-" THEN 0 - DigitsVal(Unsigned(s))
    ELSE DigitsVal(Unsigned(s))

\* float(s) does not raise ValueError: an optional sign, digits with at most
\* one point, at least one digit (the model's alphabet has no exponent, "inf"
\* or "nan")
IsFloatText(s) ==
    LET u == Unsigned(s)
        d == [i \in 1..Len(u) |-> u[i] \in Digits]
    IN /\ \A i \in 1..Len(u) : u[i] \in Digits \cup {"."}
       /\ CountChar(u, ".") <= 1
       /\ \E i \in 1..Len(u) : d[i]

\* float(s) in hundredths; fractional digits after the second are dropped
FloatVal(s) ==
    LET u     == Unsigned(s)
        parts == Split(u, ".")
        whole == DigitsVal(parts[1])
        frac  == IF Len(parts) > 1 THEN parts[2] ELSE <<>>
        f2    == Slice(frac \o <<"0", "0">>, 1, 2)
        mag   == whole * 100 + DigitsVal(f2)
    IN IF s[1] = "-" THEN 0 - mag ELSE mag

\* str.strip("()"): leading and trailing parentheses removed
RECURSIVE LStripParens(_)
LStripParens(s) ==
    IF s # <<>> /\ Head(s) \in {"(", ")"} THEN LStripParens(Tail(s)) ELSE s

RECURSIVE RStripParens(_)
RStripParens(s) ==
    IF s # <<>> /\ s[Len(s)] \in {"(", ")"}
    THEN RStripParens(Slice(s, 1, Len(s) - 1)) ELSE s

StripParens(s) == RStripParens(LStripParens(s))

\* str.replace("ms", ""): every non-overlapping "ms", left to right, removed
RECURSIVE ReplaceMs(_)
ReplaceMs(s) ==
    IF Len(s) < 2 THEN s
    ELSE IF s[1] = "m" /\ s[2] = "s" THEN ReplaceMs(Slice(s, 3, Len(s)))
    ELSE <<Head(s)>> \o ReplaceMs(Tail(s))

\* [word.strip() for word in line.split(" ") if word.strip()]
\* (a word holds no whitespace other than the separating spaces)
RECURSIVE NonEmpty(_)
NonEmpty(ws) ==
    IF ws = <<>> THEN <<>>
    ELSE IF Head(ws) = <<>> THEN NonEmpty(Tail(ws))
    ELSE <<Head(ws)>> \o NonEmpty(Tail(ws))

Words(line) == NonEmpty(Split(line, " "))

\* " ".join(words)
RECURSIVE Join(_)
Join(ws) ==
    IF ws = <<>> THEN <<>>
    ELSE IF Len(ws) = 1 THEN ws[1]
    ELSE ws[1] \o <<" ">> \o Join(Tail(ws))

\* x in list
InList(x, l) == \E i \in 1..Len(l) : l[i] = x

\* str.strip(): the model's lines hold no whitespace but spaces
RECURSIVE LStrip(_)
LStrip(s) == IF s # <<>> /\ Head(s) = " " THEN LStrip(Tail(s)) ELSE s

RECURSIVE RStrip(_)
RStrip(s) ==
    IF s # <<>> /\ s[Len(s)] = " " THEN RStrip(Slice(s, 1, Len(s) - 1)) ELSE s

Strip(s) == RStrip(LStrip(s))

UpperCase ==
    <<"A", "B", "C", "D", "E", "F", "G", "H", "I", "J", "K", "L", "M", "N",
      "O", "P", "Q", "R", "S", "T", "U", "V", "W", "X", "Y", "Z">>
LowerCase ==
    <<"a", "b", "c", "d", "e", "f", "g", "h", "i", "j", "k", "l", "m", "n",
      "o", "p", "q", "r", "s", "t", "u", "v", "w", "x", "y", "z">>

\* str.lower()
Lower(s) ==
    [i \in 1..Len(s) |->
        IF \E k \in 1..Len(UpperCase) : UpperCase[k] = s[i]
        THEN LowerCase[CHOOSE k \in 1..Len(UpperCase) : UpperCase[k] = s[i]]
        ELSE s[i]]

\* sub in s
Contains(s, sub) ==
    \E i \in 1..(Len(s) - Len(sub) + 1) : SubSeq(s, i, i + Len(sub) - 1) = sub

DigitChar == <<"0", "1", "2", "3", "4", "5", "6", "7", "8", "9">>

\* str(n) for an int n >= 0
RECURSIVE IntToStr(_)
IntToStr(n) ==
    IF n < 10 THEN <<DigitChar[n + 1]>>
    ELSE Append(IntToStr(n \div 10), DigitChar[(n % 10) + 1])


(***************************************************************************)
(* Python dicts with optional keys are functions on the keys present.      *)
(***************************************************************************)
HasKey(d, k) == k \in DOMAIN d

SetKey(d, k, v) == [x \in DOMAIN d \cup {k} |-> IF x = k THEN v ELSE d[x]]

DelKey(d, k) == [x \in DOMAIN d \ {k} |-> d[x]]

(***************************************************************************)
(* traceroute.py: parse_line                                               *)
(***************************************************************************)
MODERN == "MODERN"
INETUTILS == "INETUTILS"
TracerouteVersion == {MODERN, INETUTILS}

\* what a call did: it returned value, or it raised exc
Returned(v) == [status |-> "returned", exc |-> "", value |-> v]
Raised(e) == [status |-> "raised", exc |-> e, value |-> <<>>]

is_ipv4_format(word) ==
    /\ CountChar(word, ".") = 3
    /\ \A i \in 1..Len(Split(word, ".")) :
          LET num == Split(word, ".")[i]
          IN IsInt(num) /\ IntVal(num) >= 0 /\ IntVal(num) < 256

wrapped_by_brackets(word) == word[1] = "(" /\ word[Len(word)] = ")"

is_float(word) == IsFloatText(word)

\* the three classifiers the selected version binds (lines 59-66)
is_ipv4(version, word) ==
    IF version = INETUTILS THEN is_ipv4_format(word)
    ELSE wrapped_by_brackets(word)
         /\ is_ipv4_format(Slice(word, 2, Len(word) - 1))

is_time(version, word) ==
    IF version = INETUTILS
    THEN /\ Len(word) >= 2
         /\ Slice(word, Len(word) - 1, Len(word)) = <<"m", "s">>
         /\ is_float(Slice(word, 1, Len(word) - 2))
    ELSE is_float(word)

is_hostname(version, word) ==
    IF version = INETUTILS THEN wrapped_by_brackets(word)
    ELSE word # <<"m", "s">>

\* the address branch of the loop (lines 74-77): the membership test looks
\* for the word as written, the list holds the word stripped of parentheses
AddAddress(result, word) ==
    LET r1 == IF HasKey(result, "ip_address") THEN result
              ELSE SetKey(result, "ip_address", <<>>)
    IN IF ~InList(word, r1["ip_address"])
       THEN SetKey(r1, "ip_address",
                   Append(r1["ip_address"], StripParens(word)))
       ELSE r1

\* one iteration of the loop over words[1:] (lines 70-82);
\* acc is the dict being built and the running expected_tries
ClassifyWord(version, acc, word) ==
    IF word = <<"*">>
    THEN [acc EXCEPT !.expected_tries = @ - 1]
    ELSE IF is_ipv4(version, word)
    THEN [acc EXCEPT !.result = AddAddress(@, word)]
    ELSE IF is_time(version, word)
    THEN [result |-> SetKey(acc.result, "results",
                        Append(acc.result["results"],
                               FloatVal(ReplaceMs(word)))),
          expected_tries |-> acc.expected_tries - 1]
    ELSE IF is_hostname(version, word)
    THEN [acc EXCEPT !.result = SetKey(@, "hostname", StripParens(word))]
    ELSE acc

RECURSIVE ClassifyWords(_, _, _)
ClassifyWords(version, acc, words) ==
    IF words = <<>> THEN acc
    ELSE ClassifyWords(version, ClassifyWord(version, acc, Head(words)),
                       Tail(words))

\* DropHostname without the several-addresses branch
DropHostname_OnlyWhenEqual(result) ==
    IF HasKey(result, "ip_address") /\ HasKey(result, "hostname")
          /\ InList(result["hostname"], result["ip_address"])
    THEN DelKey(result, "hostname")
    ELSE result

\* lines 84-91: the hostname is removed when several addresses were recorded,
\* or when it is one of the recorded addresses
DropHostname(result) ==
    IF HasKey(result, "ip_address") /\ HasKey(result, "hostname")
    THEN IF Len(result["ip_address"]) > 1
         THEN DelKey(result, "hostname")
         ELSE IF InList(result["hostname"], result["ip_address"])
         THEN DelKey(result, "hostname")
         ELSE result
    ELSE result

\* ProbeCountOk rejecting too few outcomes only
ProbeCountOk_TooFewOnly(expected_tries) == expected_tries <= 0

\* lines 93-94: the call returns only with expected_tries run down to 0
ProbeCountOk(expected_tries) == expected_tries = 0

parse_line(version, line, expected_tries) ==
    LET words == Words(line)
    IN IF words = <<>> THEN Raised("IndexError")
       ELSE IF ~IsInt(words[1]) THEN Raised("ValueError")
       ELSE IF version \notin TracerouteVersion THEN Raised("ValueError")
       ELSE LET acc == ClassifyWords(version,
                           [result |-> [index |-> IntVal(words[1]),
                                        results |-> <<>>],
                            expected_tries |-> expected_tries],
                           Tail(words))
            IN IF ~ProbeCountOk(acc.expected_tries)
               THEN Raised("RuntimeError")
               ELSE Returned(DropHostname(acc.result))


(***************************************************************************)
(* traceroute.py: TracerouteResult and main                                *)
(***************************************************************************)
S_traceroute ==
    <<"t", "r", "a", "c", "e", "r", "o", "u", "t", "e">>
S_no_data ==
    <<"N", "o", " ", "d", "a", "t", "a">>
S_name_unknown ==
    <<"n", "a", "m", "e", " ", "o", "r", " ", "s", "e", "r", "v", "i", "c",
      "e", " ", "n", "o", "t", " ", "k", "n", "o", "w", "n">>
S_invalid_argument ==
    <<"i", "n", "v", "a", "l", "i", "d", " ", "a", "r", "g", "u", "m", "e",
      "n", "t">>

\* a Python tuple of one item, as the trailing commas of to_json build
Tuple1(x) == [tuple |-> <<x>>]

\* __init__ (lines 127-167) with the options at their defaults: no first
\* hop, no gateways, no icmp, max_hop 64, udp, port 33434, wait 3
Cmd(version, host, tries) ==
    <<S_traceroute, <<"-", "m">>, <<"6", "4">>>>
    \o (IF version = INETUTILS THEN <<<<"-", "M">>, <<"u", "d", "p">>>>
        ELSE IF version = MODERN THEN <<<<"-", "-", "u", "d", "p">>>>
        ELSE <<>>)
    \o <<<<"-", "p">>, <<"3", "3", "4", "3", "4">>, <<"-", "q">>,
         IntToStr(tries), <<"-", "w">>, <<"3">>, host>>

\* str(datetime.datetime.now()): the clock's reading written out
TimestampText(t) == IntToStr(t)

\* the value under "data" is a str or a list, and view-results.py tests
\* which: it carries its Python type
PyStr(text) == [type |-> "str", value |-> text]
PyList(items) == [type |-> "list", value |-> items]

\* to_json (lines 232-247); t is the clock when it is called
to_json(cmd, description, result, timestamp, seconds, t) ==
    IF result = <<>>
    THEN [cmd |-> Join(cmd), data |-> PyStr(S_no_data),
          timestamp |-> TimestampText(t)]
    ELSE [cmd |-> Join(cmd),
          description |-> Tuple1(description),
          timestamp |-> Tuple1(timestamp),
          time_taken_in_secs |-> Tuple1(seconds),
          data |-> PyList(result)]

\* json.dump of a run object built by to_json: a tuple is written as an array
JsonDumpRun(obj) ==
    IF HasKey(obj, "description")
    THEN [cmd |-> obj.cmd,
          description |-> obj.description.tuple,
          timestamp |-> obj.timestamp.tuple,
          time_taken_in_secs |-> obj.time_taken_in_secs.tuple,
          data |-> obj.data]
    ELSE obj

\* a field of the dictionary to_json returns as the Python value it is: a
\* str, a float, a tuple (the value of an assignment ending in a comma) or a
\* list
PyField(obj, key) ==
    IF key = "data" THEN [py |-> obj.data.type, v |-> obj.data.value]
    ELSE IF key = "cmd" THEN [py |-> "str", v |-> obj.cmd]
    ELSE IF HasKey(obj, "description")
    THEN [py |-> "tuple", v |-> obj[key].tuple]
    ELSE [py |-> "str", v |-> obj[key]]

\* json.load of what json.dump wrote for a value (lines 252-262): a tuple is
\* written as an array as a list is, and an array is read as a list; a str, a
\* float and the items of a list are read as they were written
json_round_trip(val) ==
    IF val.py = "tuple" THEN [py |-> "list", v |-> val.v] ELSE val

\* the output file: absent, or holding a JSON object host -> array of runs
NoFile == [exists |-> FALSE, json |-> <<>>]
FileOf(json) == [exists |-> TRUE, json |-> json]

\* the file is taken to be absent whatever it holds
LoadFile_AlwaysAbsent(f) == <<>>

\* lines 252-256: json.load of the file, {} when there is none.  What
\* json.load returns (dicts, lists, strings, numbers) json.dump writes back
\* as it was read.
LoadFile(f) == IF f.exists THEN f.json ELSE <<>>

\* save_to_file with the history replaced instead of extended
SaveResult_Replace(prev_data, host, obj) == SetKey(prev_data, host, <<obj>>)

\* lines 258-260: the run object is appended to the host's list, which is
\* created empty when the host is new
SaveResult(prev_data, host, obj) ==
    LET p1 == IF ~HasKey(prev_data, host) THEN SetKey(prev_data, host, <<>>)
              ELSE prev_data
    IN SetKey(p1, host, Append(p1[host], obj))

\* main with run_traceroute_program's exception swallowed
MainAfterRaise_GoesOn == "done"

\* main (lines 320-323): an exception raised by run_traceroute_program leaves
\* main before save_to_file is called
MainAfterRaise == "aborted"

\* what the traceroute program prints first
BannerOk ==
    <<"t", "r", "a", "c", "e", "r", "o", "u", "t", "e", " ", "t", "o", " ",
      "h", ",", " ", "6", "4", " ", "h", "o", "p", "s", " ", "m", "a", "x">>
BannerUnknown ==
    <<"h", ":", " ", "N", "a", "m", "e", " ", "o", "r", " ", "s", "e", "r",
      "v", "i", "c", "e", " ", "n", "o", "t", " ", "k", "n", "o", "w", "n">>

BannerPool == {BannerOk, BannerUnknown}

L_modern_hop ==
    <<"1", " ", "a", " ", "(", "1", ".", "1", ".", "1", ".", "1", ")", " ",
      "1", ".", "5", " ", "m", "s", " ", "*">>
L_inet_hop ==
    <<" ", "1", " ", " ", "1", ".", "1", ".", "1", ".", "1", " ", " ", "2",
      "m", "s", " ", " ", "*">>
L_timeouts ==
    <<" ", "2", " ", " ", "*", " ", "*">>
L_short ==
    <<"3", " ", "*">>
L_noindex ==
    <<"s", "e", "n", "d", " ", "f", "a", "i", "l", "e", "d">>
L_invalid ==
    <<"t", "r", "a", "c", "e", "r", "o", "u", "t", "e", ":", " ", "I", "n",
      "v", "a", "l", "i", "d", " ", "a", "r", "g", "u", "m", "e", "n", "t">>

\* the lines the traceroute program prints after the banner: hop lines of
\* its format, a line with a probe missing, a line that is no hop line, its
\* complaint about an argument, and the empty line that ends the output
HopLinePool(version) ==
    {IF version = MODERN THEN L_modern_hop ELSE L_inet_hop, L_timeouts,
     L_short, L_noindex, L_invalid, <<>>}

Hosts == {<<"h">>, <<"g">>}

\* --tries, as these runs are started
RunTriesPool == {2}

\* a file an earlier run for host g, which printed no hop line, has written
EarlierFile ==
    FileOf(SaveResult(LoadFile(NoFile), <<"g">>,
               JsonDumpRun(to_json(Cmd(MODERN, <<"g">>, 2), BannerOk, <<>>,
                                   <<>>, 0, 0))))

IdleRun ==
    /\ r_pc = "idle"
    /\ r_host = <<>>
    /\ r_cmd = <<>>
    /\ r_tries = 0
    /\ r_description = <<>>
    /\ r_result = <<>>
    /\ r_timestamp = <<>>
    /\ r_start = 0
    /\ r_seconds = 0
    /\ r_exc = ""
    /\ now = 0
    /\ runs = 0

\* main, line 321, and run_traceroute_program up to the first read (lines
\* 189-197): the object is built, the program started, the clock read
StartRun(host, tries) ==
    /\ r_pc \in {"idle", "saved", "aborted"}
    /\ runs < MaxRuns
    /\ runs' = runs + 1
    /\ r_pc' = "banner"
    /\ r_host' = Strip(host)
    /\ r_cmd' = Cmd(tr_ver, host, tries)
    /\ r_tries' = tries
    /\ r_description' = <<>>
    /\ r_result' = <<>>
    /\ r_timestamp' = TimestampText(now)
    /\ r_start' = now
    /\ r_seconds' = 0
    /\ r_exc' = ""
    /\ file_before' = file
    /\ UNCHANGED <<file, tr_ver, now>>

\* lines 199-203: the banner is read and kept; an unresolved host raises
ReadBanner(line) ==
    /\ r_pc = "banner"
    /\ r_description' = Strip(line)
    /\ now' = now + 1
    /\ IF Contains(Lower(Strip(line)), S_name_unknown)
       THEN r_exc' = "RuntimeError" /\ r_pc' = MainAfterRaise
       ELSE r_exc' = r_exc /\ r_pc' = "loop"
    /\ UNCHANGED <<file, tr_ver, r_host, r_cmd, r_tries, r_result,
                   r_timestamp, r_start, r_seconds, runs, file_before>>

\* lines 205-218: one turn of the loop on the line read
ReadHopLine(raw) ==
    LET line == Strip(raw)
        parsed == parse_line(tr_ver, line, r_tries)
    IN /\ r_pc = "loop"
       /\ Len(r_result) < MaxHops \/ line = <<>>
       /\ now' = now + 1
       /\ IF Contains(Lower(line), S_invalid_argument)
          THEN /\ r_exc' = "ValueError"
               /\ r_pc' = MainAfterRaise
               /\ UNCHANGED <<r_result, r_seconds>>
          ELSE IF line = <<>>
          THEN /\ r_seconds' = now' - r_start
               /\ r_pc' = "done"
               /\ UNCHANGED <<r_result, r_exc>>
          ELSE IF parsed.status = "raised"
          THEN /\ r_exc' = parsed.exc
               /\ r_pc' = MainAfterRaise
               /\ UNCHANGED <<r_result, r_seconds>>
          ELSE /\ r_result' = Append(r_result, parsed.value)
               /\ UNCHANGED <<r_pc, r_exc, r_seconds>>
       /\ UNCHANGED <<file, tr_ver, r_host, r_cmd, r_tries, r_description,
                      r_timestamp, r_start, runs, file_before>>

\* save_to_file (lines 249-262), called by main once the run has returned
SaveToFile ==
    /\ r_pc = "done"
    /\ file' = FileOf(SaveResult(LoadFile(file), r_host,
                   JsonDumpRun(to_json(r_cmd, r_description, r_result,
                                       r_timestamp, r_seconds, now))))
    /\ r_pc' = "saved"
    /\ UNCHANGED <<tr_ver, r_host, r_cmd, r_tries, r_description, r_result,
                   r_timestamp, r_start, r_seconds, r_exc, now, runs,
                   file_before>>

(***************************************************************************)
(* traceroute.py: save_to_file in two processes on one output file         *)
(***************************************************************************)
SaveProcs == {"p", "q"}

\* the file after open(..., "w") and before anything is written: empty
TruncatedFile == [exists |-> TRUE, json |-> <<>>, text |-> "empty"]

\* the file after a process wrote from the start of a file that another
\* process had written meanwhile, when what was there is longer than what
\* was written over it: not a JSON document
GarbledFile == [exists |-> TRUE, json |-> <<>>, text |-> "garbled"]

\* json.load raises on a file that is not a JSON document
NotJson(f) == HasKey(f, "text")

IdleSave ==
    /\ s_mutex = FALSE
    /\ s_pc = [p \in SaveProcs |-> "idle"]
    /\ s_run = [p \in SaveProcs |-> <<>>]
    /\ s_prev = [p \in SaveProcs |-> <<>>]

\* the critical section the callers' mutual exclusion wraps: the whole of
\* save_to_file from the first open to the end of the second with block
InSave(p) == s_pc[p] \in {"loaded", "writing"}

\* lines 252-256: open the file and json.load it; FileNotFoundError gives {},
\* any other exception leaves save_to_file
SaveRead(p) ==
    /\ s_pc[p] = "start"
    /\ s_mutex => \A q \in SaveProcs \ {p} : ~InSave(q)
    /\ IF NotJson(file)
       THEN /\ s_pc' = [s_pc EXCEPT ![p] = "failed"]
            /\ UNCHANGED s_prev
       ELSE /\ s_pc' = [s_pc EXCEPT ![p] = "loaded"]
            /\ s_prev' = [s_prev EXCEPT ![p] = LoadFile(file)]
    /\ UNCHANGED <<file, s_mutex, s_run>>

\* lines 258-261: the run is added to prev_data, then open(..., "w") empties
\* the file
SaveOpenWrite(p) ==
    /\ s_pc[p] = "loaded"
    /\ s_prev' = [s_prev EXCEPT
                    ![p] = SaveResult(@, s_run[p].host, s_run[p].obj)]
    /\ file' = TruncatedFile
    /\ s_pc' = [s_pc EXCEPT ![p] = "writing"]
    /\ UNCHANGED <<s_mutex, s_run>>

\* lines 261-262: json.dump and the end of the with block write prev_data
\* from the start of the file; over what another process wrote meanwhile the
\* result is prev_data or, when that was longer, not a JSON document
SaveDump(p) ==
    /\ s_pc[p] = "writing"
    /\ \/ file' = FileOf(s_prev[p])
       \/ file # TruncatedFile /\ file' = GarbledFile
    /\ s_pc' = [s_pc EXCEPT ![p] = "done"]
    /\ UNCHANGED <<s_mutex, s_run, s_prev>>

(***************************************************************************)
(* view-results.py: TracerouteData                                         *)
(***************************************************************************)
\* the characters of host names, in code point order
CodePointOrder ==
    <<"-", ".", "0", "1", "2", "3", "4", "5", "6", "7", "8", "9", "a", "b",
      "c", "d", "e", "f", "g", "h", "i", "j", "k", "l", "m", "n", "o", "p",
      "q", "r", "s", "t", "u", "v", "w", "x", "y", "z">>

CodePoint(c) == CHOOSE k \in 1..Len(CodePointOrder) : CodePointOrder[k] = c

\* a < b for str
RECURSIVE StrLess(_, _)
StrLess(a, b) ==
    IF b = <<>> THEN FALSE
    ELSE IF a = <<>> THEN TRUE
    ELSE IF Head(a) = Head(b) THEN StrLess(Tail(a), Tail(b))
    ELSE CodePoint(Head(a)) < CodePoint(Head(b))

\* list.sort() of a set of str
RECURSIVE SortStrs(_)
SortStrs(S) ==
    IF S = {} THEN <<>>
    ELSE LET least == CHOOSE x \in S : \A y \in S : x = y \/ StrLess(x, y)
         IN <<least>> \o SortStrs(S \ {least})

\* __init__ and get_hostnames (lines 17-33)
get_hostnames(d) == SortStrs(DOMAIN d)

\* get_entries (lines 98-109): the host's runs whose "data" is a list
RECURSIVE SelectListEntries(_)
SelectListEntries(entries) ==
    IF entries = <<>> THEN <<>>
    ELSE IF Head(entries).data.type = "list"
    THEN <<Head(entries)>> \o SelectListEntries(Tail(entries))
    ELSE SelectListEntries(Tail(entries))

get_entries(d, hostname) == SelectListEntries(d[hostname])

\* get_number_empty_entries (lines 35-48)
get_number_empty_entries(d, hostname) ==
    Cardinality({i \in 1..Len(d[hostname]) :
                    d[hostname][i].data.type # "list"})

\* get_number_entries (lines 61-71)
get_number_entries(d, hostname) ==
    Len(d[hostname]) - get_number_empty_entries(d, hostname)

\* get_number_all_entries (lines 73-82)
RECURSIVE SumEntries(_, _)
SumEntries(d, hostnames) ==
    IF hostnames = <<>> THEN 0
    ELSE get_number_entries(d, Head(hostnames))
         + SumEntries(d, Tail(hostnames))

get_number_all_entries(d) == SumEntries(d, get_hostnames(d))

\* lines 123-126: one run's hops added to the lists, hop by hop, the hop at
\* position i of the run to the list at position i
RECURSIVE AddDelays(_, _, _)
AddDelays(result, hops, i) ==
    IF i > Len(hops) THEN result
    ELSE LET r1 == IF i = Len(result) + 1 THEN Append(result, <<>>)
                   ELSE result
         IN AddDelays([r1 EXCEPT ![i] = @ \o hops[i]["results"]], hops, i + 1)

RECURSIVE DelaysOf(_, _)
DelaysOf(result, entries) ==
    IF entries = <<>> THEN result
    ELSE DelaysOf(AddDelays(result, Head(entries).data.value, 1),
                  Tail(entries))

\* get_hostname_entry_delays (lines 111-127)
get_hostname_entry_delays(d, hostname) ==
    DelaysOf(<<>>, get_entries(d, hostname))

\* lines 146-150: one hop's addresses added to the set at its position, and
\* its hostname, when it has one, noted for each of them
RECURSIVE AddHopIps(_, _, _, _, _)
AddHopIps(acc, hop, i, k, with_hostnames) ==
    IF k > Len(hop["ip_address"]) THEN acc
    ELSE LET ip == hop["ip_address"][k]
             a1 == [acc EXCEPT !.result[i] = @ \cup {ip}]
             a2 == IF with_hostnames /\ HasKey(hop, "hostname")
                   THEN [a1 EXCEPT !.hostname_map =
                                      SetKey(@, ip, hop["hostname"])]
                   ELSE a1
         IN AddHopIps(a2, hop, i, k + 1, with_hostnames)

RECURSIVE AddHosts(_, _, _, _)
AddHosts(acc, hops, i, with_hostnames) ==
    IF i > Len(hops) THEN acc
    ELSE LET a1 == IF i = Len(acc.result) + 1
                   THEN [acc EXCEPT !.result = Append(@, {})]
                   ELSE acc
             a2 == IF HasKey(hops[i], "ip_address")
                   THEN AddHopIps(a1, hops[i], i, 1, with_hostnames)
                   ELSE a1
         IN AddHosts(a2, hops, i + 1, with_hostnames)

RECURSIVE HostsOf(_, _, _)
HostsOf(acc, entries, with_hostnames) ==
    IF entries = <<>> THEN acc
    ELSE HostsOf(AddHosts(acc, Head(entries).data.value, 1, with_hostnames),
                 Tail(entries), with_hostnames)

S_unknown == <<"?", "?", "?">>

\* "{} ({})".format(ip, name)
IpWithName(ip, name) == ip \o <<" ", "(">> \o name \o <<")">>

\* get_hostname_entry_hosts (lines 129-160): per position the set of
\* addresses seen there, each with the hostname last noted for it
get_hostname_entry_hosts(d, hostname, with_hostnames) ==
    LET acc == HostsOf([result |-> <<>>, hostname_map |-> <<>>],
                       get_entries(d, hostname), with_hostnames)
        Shown(S) ==
            {IF HasKey(acc.hostname_map, ip)
             THEN IpWithName(ip, acc.hostname_map[ip]) ELSE ip : ip \in S}
    IN [i \in 1..Len(acc.result) |->
           IF acc.result[i] = {} THEN {S_unknown} ELSE Shown(acc.result[i])]

(***************************************************************************)
(* view-results.py: graph_table and print_stats                            *)
(***************************************************************************)
RECURSIVE SumSeq(_)
SumSeq(nums) == IF nums = <<>> THEN 0 ELSE Head(nums) + SumSeq(Tail(nums))

MinSeq(nums) ==
    CHOOSE x \in {nums[i] : i \in 1..Len(nums)} :
        \A i \in 1..Len(nums) : x <= nums[i]

MaxSeq(nums) ==
    CHOOSE x \in {nums[i] : i \in 1..Len(nums)} :
        \A i \in 1..Len(nums) : x >= nums[i]

\* itertools.chain.from_iterable
RECURSIVE Flatten(_)
Flatten(lists) ==
    IF lists = <<>> THEN <<>> ELSE Head(lists) \o Flatten(Tail(lists))

\* round(num / den, 2) in hundredths, for num in hundredths and den > 0:
\* the quotient rounded to the nearest integer, a tie to the even one.  (The
\* float the division yields is taken to be the quotient itself; the delays
\* of the stores below have no quotient that is a tie.)
RoundDiv(num, den) ==
    LET q == num \div den
        r == num % den
    IN IF 2 * r < den THEN q
       ELSE IF 2 * r > den THEN q + 1
       ELSE IF q % 2 = 0 THEN q ELSE q + 1

\* the sample variance of nums as the fraction num / den, for Len(nums) >= 2
VarianceNum(nums) ==
    LET n == Len(nums)
        sq == [i \in 1..n |-> nums[i] * nums[i]]
    IN n * SumSeq(sq) - SumSeq(nums) * SumSeq(nums)

VarianceDen(nums) == Len(nums) * (Len(nums) - 1)

\* round(statistics.stdev(nums), 2) in hundredths, for Len(nums) >= 2: the
\* integer nearest to the square root of the variance
RoundStdev(nums) ==
    LET num == VarianceNum(nums)
        den == VarianceDen(nums)
    IN CHOOSE r \in 0..(MaxSeq(nums) - MinSeq(nums) + 1) :
          /\ (2 * r - 1) * (2 * r - 1) * den <= 4 * num \/ r = 0
          /\ 4 * num < (2 * r + 1) * (2 * r + 1) * den

\* str(x) of a float x given in hundredths: the digits before the point, the
\* point, and one or two digits after it
FloatStr(h) ==
    LET mag == IF h < 0 THEN 0 - h ELSE h
        frac == mag % 100
    IN (IF h < 0 THEN <<"-">> ELSE <<>>)
       \o IntToStr(mag \div 100) \o <<".">>
       \o (IF frac % 10 = 0 THEN IntToStr(frac \div 10)
           ELSE <<DigitChar[(frac \div 10) + 1], DigitChar[(frac % 10) + 1]>>)

\* the row of four dashes, ["-"] * 4
NoStats == <<<<"-">>, <<"-">>, <<"-">>, <<"-">>>>

\* get_stats_from_list (lines 170-175), for nums not empty:
\* statistics.stdev raises StatisticsError on a single number
get_stats_from_list(nums) ==
    IF Len(nums) < 2 THEN Raised("StatisticsError")
    ELSE Returned(<<FloatStr(RoundDiv(SumSeq(nums), Len(nums))),
                    FloatStr(MinSeq(nums)),
                    FloatStr(MaxSeq(nums)),
                    FloatStr(RoundStdev(nums))>>)

\* line 185 and line 203
StatsOrDashes(nums) ==
    IF nums # <<>> THEN get_stats_from_list(nums) ELSE Returned(NoStats)

\* the first exception among the rows' statistics, "" when there is none
RECURSIVE FirstRaise(_)
FirstRaise(stats) ==
    IF stats = <<>> THEN ""
    ELSE IF Head(stats).status = "raised" THEN Head(stats).exc
    ELSE FirstRaise(Tail(stats))

\* None, for an argument that is otherwise a str
None == <<"N", "o", "n", "e", "\n">>

S_no_data_printed == [no_data |-> TRUE]

\* graph_table (lines 162-205): the rows of the table it prints
graph_table(d, hostname) ==
    IF hostname = None
    THEN LET hostnames == get_hostnames(d)
             delays == [i \in 1..Len(hostnames) |->
                          Flatten(get_hostname_entry_delays(d, hostnames[i]))]
             stats == [i \in 1..Len(hostnames) |-> StatsOrDashes(delays[i])]
         IN IF FirstRaise(stats) # "" THEN Raised(FirstRaise(stats))
            ELSE Returned([i \in 1..Len(hostnames) |->
                             [name |-> hostnames[i],
                              rcvd |-> Len(delays[i]),
                              stats |-> stats[i].value]])
    ELSE LET delays == get_hostname_entry_delays(d, hostname)
             v_hosts == get_hostname_entry_hosts(d, hostname, TRUE)
             stats == [i \in 1..Len(delays) |-> StatsOrDashes(delays[i])]
         IN IF Len(delays) = 0 THEN Returned(S_no_data_printed)
            ELSE IF FirstRaise(stats) # "" THEN Raised(FirstRaise(stats))
            ELSE Returned([i \in 1..Len(delays) |->
                             [name |-> v_hosts[i],
                              rcvd |-> Len(delays[i]),
                              stats |-> stats[i].value]])

\* lines 391-407: the list of lists of delays and the first lines to print
\* (a file traceroute.py wrote names at least one host)
RECURSIVE AllDelays(_, _)
AllDelays(d, hostnames) ==
    IF hostnames = <<>> THEN <<>>
    ELSE get_hostname_entry_delays(d, Head(hostnames))
         \o AllDelays(d, Tail(hostnames))

\* print_stats (lines 382-425): what it prints
print_stats(d, hostname) ==
    LET delays == IF hostname = None THEN AllDelays(d, get_hostnames(d))
                  ELSE get_hostname_entry_delays(d, hostname)
        head == IF hostname = None
                THEN [hostnames |-> Len(get_hostnames(d)),
                      entries |-> get_number_all_entries(d),
                      hops |-> FloatStr(RoundDiv(Len(delays) * 100,
                                                 Len(get_hostnames(d))))]
                ELSE [hostnames |-> 1,
                      entries |-> get_number_entries(d, hostname),
                      hops |-> IntToStr(Len(delays))]
        flat == Flatten(delays)
    IN IF delays = <<>> THEN Returned(S_no_data_printed)
       ELSE IF flat = <<>> THEN Raised("ZeroDivisionError")
       ELSE IF Len(flat) < 2 THEN Raised("StatisticsError")
       ELSE Returned([no_data |-> FALSE,
                      head |-> head,
                      average |-> FloatStr(RoundDiv(SumSeq(flat), Len(flat))),
                      best |-> FloatStr(MinSeq(flat)),
                      worst |-> FloatStr(MaxSeq(flat)),
                      stdev |-> FloatStr(RoundStdev(flat))])

\* no call made yet
NoCall ==
    [fn |-> "", arg |-> None, status |-> "pending", exc |-> "",
     value |-> <<>>]

CallOf(fn, arg, outcome) ==
    [fn |-> fn, arg |-> arg, status |-> outcome.status, exc |-> outcome.exc,
     value |-> outcome.value]

IdleView == data = <<>> /\ v_out = NoCall

\* main (lines 474-498) with action "stats": print_stats(data) when no
\* hostname is given, print_stats(data, hostname) for a hostname of the file
PrintStats(hostname) ==
    /\ hostname = None \/ HasKey(data, hostname)
    /\ v_out' = CallOf("print_stats", hostname, print_stats(data, hostname))
    /\ UNCHANGED data

\* main with action "table"
GraphTable(hostname) ==
    /\ hostname = None \/ HasKey(data, hostname)
    /\ v_out' = CallOf("graph_table", hostname, graph_table(data, hostname))
    /\ UNCHANGED data

(***************************************************************************)
(* view-results.py: graph_map                                              *)
(***************************************************************************)
\* f"??? ({temp_count})" (lines 316 and 330)
Placeholder(n) == <<"?", "?", "?", " ", "(">> \o IntToStr(n) \o <<")">>

\* f"<{host}>" (line 347)
HostTag(host) == <<"<">> \o host \o <<">">>

\* current + f"\n<{host}>" (line 348)
Tagged(current, host) == current \o <<"\n">> \o HostTag(host)

\* None, for the node of edges[previous]
NoNode == <<>>

\* (set(), None) (line 326)
NoEdges == [succ |-> {}, node |-> NoNode]

\* lines 310-312 on the store d.  body is the set of the edges given to
\* graph.edge, each drawn once; made, reused and drawn keep, for each run
\* <<host, position>>, the nodes lines 316 and 330 made for it and the
\* nodes line 334 took for it, each with the hop it was for, and the edges
\* line 354 drew for it.
NewMerge(d) ==
    [d |-> d, edges |-> <<>>, ip_to_hosts |-> <<>>, temp_count |-> 1,
     body |-> {}, made |-> {}, reused |-> {}, drawn |-> {}]

\* entry["data"] of the run at position e of the host
HopsOf(s, host, e) == s.d[host][e].data.value

\* entry["data"][i]["ip_address"] = {node} (lines 316 and 335)
SetHopIps(s, host, e, i, node) ==
    [s EXCEPT !.d[host][e].data.value[i] = SetKey(@, "ip_address", <<node>>)]

\* for ip in ips: ip_to_hosts[ip] = name (lines 321-322 and 342-343)
RECURSIVE NoteHosts(_, _, _)
NoteHosts(ip_to_hosts, ips, name) ==
    IF ips = <<>> THEN ip_to_hosts
    ELSE NoteHosts(SetKey(ip_to_hosts, Head(ips), name), Tail(ips), name)

\* lines 315-317: the first hop of the run
FirstHop(s, host, e) ==
    IF HasKey(HopsOf(s, host, e)[1], "ip_address") THEN s
    ELSE [SetHopIps(s, host, e, 1, Placeholder(s.temp_count))
            EXCEPT !.temp_count = @ + 1,
                   !.made = @ \cup {[run |-> <<host, e>>, hop |-> 1,
                                     node |-> Placeholder(s.temp_count),
                                     first |-> TRUE]}]

\* a hop that holds a placeholder counts as unobserved as well
HopUnobserved_OrPlaceholder(s, host, e, i) ==
    \/ ~HasKey(HopsOf(s, host, e)[i], "ip_address")
    \/ HopsOf(s, host, e)[i]["ip_address"]
          \in {<<m.node>> : m \in s.made \cup s.reused}

\* "ip_address" not in entry["data"][i] (line 328)
HopUnobserved(s, host, e, i) ==
    ~HasKey(HopsOf(s, host, e)[i], "ip_address")

\* lines 325-354: the body of the loop over the addresses of the hop before
\* hop i (hops are counted from 1 here, so the last hop is hop Len)
PreviousStep(s, host, e, i, previous) ==
    LET known == IF HasKey(s.edges, previous) THEN s.edges
                 ELSE SetKey(s.edges, previous, NoEdges)
        missing == HopUnobserved(s, host, e, i)
        fresh == missing /\ known[previous].node = NoNode
        new_node == IF fresh THEN Placeholder(s.temp_count)
                    ELSE known[previous].node
        run == <<host, e>>
        s1 == [s EXCEPT
                 !.edges = IF fresh
                           THEN [known EXCEPT ![previous].node = new_node]
                           ELSE known,
                 !.temp_count = IF fresh THEN @ + 1 ELSE @,
                 !.made = IF fresh
                          THEN @ \cup {[run |-> run, hop |-> i,
                                        node |-> new_node, first |-> FALSE]}
                          ELSE @,
                 !.reused = IF missing /\ ~fresh
                            THEN @ \cup {[run |-> run, hop |-> i,
                                          node |-> new_node,
                                          after |-> previous]}
                            ELSE @]
        s2 == IF missing THEN SetHopIps(s1, host, e, i, new_node) ELSE s1
        hop == HopsOf(s2, host, e)[i]
        ips == hop["ip_address"]
        last == i = Len(HopsOf(s2, host, e))
        s3 == IF last /\ HasKey(hop, "hostname")
              THEN [s2 EXCEPT !.ip_to_hosts =
                                 NoteHosts(@, ips, hop["hostname"])]
              ELSE s2
        listed == {ips[k] : k \in 1..Len(ips)}
        currents == IF last
                    THEN {Tagged(c, host) :
                             c \in {x \in listed :
                                       ~Contains(x, HostTag(host))}}
                    ELSE listed
        new == currents \ s3.edges[previous].succ
    IN [s3 EXCEPT
          !.edges[previous].succ = @ \cup new,
          !.body = @ \cup {[tail |-> previous, head |-> c] : c \in new},
          !.drawn = @ \cup {[run |-> run, tail |-> previous, head |-> c] :
                               c \in new}]

\* line 324: the loop over the addresses the hop before hop i has when the
\* loop starts
RECURSIVE PreviousLoop(_, _, _, _, _)
PreviousLoop(s, host, e, i, previouses) ==
    IF previouses = <<>> THEN s
    ELSE PreviousLoop(PreviousStep(s, host, e, i, Head(previouses)),
                      host, e, i, Tail(previouses))

\* lines 319-354: the loop over the hops after the first
RECURSIVE HopLoop(_, _, _, _)
HopLoop(s, host, e, i) ==
    IF i > Len(HopsOf(s, host, e)) THEN s
    ELSE LET before == HopsOf(s, host, e)[i - 1]
             s1 == IF HasKey(before, "hostname")
                   THEN [s EXCEPT !.ip_to_hosts =
                                     NoteHosts(@, before["ip_address"],
                                               before["hostname"])]
                   ELSE s
         IN HopLoop(PreviousLoop(s1, host, e, i, before["ip_address"]),
                    host, e, i + 1)

\* line 314: the loop over get_entries(host), the runs of the host whose
\* "data" is a list (a list to_json wrote has a hop)
RECURSIVE EntryLoop(_, _, _)
EntryLoop(s, host, e) ==
    IF e > Len(s.d[host]) THEN s
    ELSE IF s.d[host][e].data.type # "list" THEN EntryLoop(s, host, e + 1)
    ELSE EntryLoop(HopLoop(FirstHop(s, host, e), host, e, 2), host, e + 1)

\* line 313
RECURSIVE HostLoop(_, _)
HostLoop(s, hostnames) ==
    IF hostnames = <<>> THEN s
    ELSE HostLoop(EntryLoop(s, Head(hostnames), 1), Tail(hostnames))

\* the inner is_ipv4 (lines 356-367), for a word whose parts between the
\* points are numbers
map_is_ipv4(word) ==
    /\ \A k \in 1..Len(word) : word[k] \in Digits \cup {"."}
    /\ CountChar(word, ".") = 3
    /\ \A k \in 1..Len(Split(word, ".")) :
          DigitsVal(Split(word, ".")[k]) < 256

\* f"{ip}\n{ip_to_hosts[ip]}" (line 377)
Labelled(ip, name) == ip \o <<"\n">> \o name

\* lines 369-377: in a line of the body the quoted word that is an address
\* with a noted hostname gets the hostname
Relabel(node, ip_to_hosts) ==
    IF map_is_ipv4(node) /\ HasKey(ip_to_hosts, node)
    THEN Labelled(node, ip_to_hosts[node])
    ELSE node

\* line 304
MergedHosts(d, hostname) ==
    IF hostname = None THEN get_hostnames(d) ELSE <<hostname>>

\* graph_map (lines 296-379): the store as the call leaves it and the graph
\* it views
graph_map(d, hostname) ==
    LET s == HostLoop(NewMerge(d), MergedHosts(d, hostname))
    IN [d |-> s.d,
        graph |-> [body |-> {[tail |-> Relabel(b.tail, s.ip_to_hosts),
                              head |-> Relabel(b.head, s.ip_to_hosts)] :
                                 b \in s.body},
                   ip_to_hosts |-> s.ip_to_hosts,
                   made |-> s.made,
                   reused |-> s.reused,
                   drawn |-> s.drawn]]

\* main (lines 474-498) with action "map": graph_map(data) once when no
\* hostname is given, else graph_map(data, hostname) for each hostname given
\* that is in the file, all on the one store main loaded
GraphMap(hostname) ==
    /\ IF hostname = None THEN v_out = NoCall
       ELSE /\ HasKey(data, hostname)
            /\ v_out = NoCall \/ v_out.arg # None
    /\ LET out == graph_map(data, hostname)
       IN /\ v_out' = CallOf("graph_map", hostname, Returned(out.graph))
          /\ data' = out.d

(***************************************************************************)
(* SpecParse: one call of parse_line on a line drawn from a pool of words. *)
(***************************************************************************)
\* the words lines are made of, as the two traceroute programs print them
W_star   == <<"*">>
W_ms     == <<"m", "s">>
W_float  == <<"1", ".", "5">>
W_floatms == <<"2", "m", "s">>
W_ipA    == <<"1", ".", "1", ".", "1", ".", "1">>
W_ipB    == <<"9", ".", "9", ".", "9", ".", "9">>
W_name   == <<"a">>
Paren(w) == <<"(">> \o w \o <<")">>

\* first words: a hop index, a negative number, not a number
IndexPool == {<<"3">>, <<"-", "1">>, W_name}

\* the words after the first: what the version's program prints (timeout,
\* address, time, unit, name), a name that is the address, and words of the
\* other version's format
WordPool(version) ==
    IF version = MODERN
    THEN {W_star, Paren(W_ipA), Paren(W_ipB), W_float, W_ms, W_name, W_ipA,
          W_floatms}
    ELSE {W_star, W_ipA, W_ipB, W_floatms, Paren(W_name), Paren(W_ipA), W_ms,
          W_float}

TriesPool == {1, 2}

\* the sequences of at most n words of the pool
RECURSIVE WordSeqs(_, _)
WordSeqs(version, n) ==
    IF n = 0 THEN {<<>>}
    ELSE LET shorter == WordSeqs(version, n - 1)
         IN shorter
            \cup {Append(ws, w) : ws \in {x \in shorter : Len(x) = n - 1},
                                  w \in WordPool(version)}

\* a first word and at most MaxWords - 1 more, joined by single spaces
LinePool(version) ==
    {Join(<<ix>> \o ws) : ix \in IndexPool,
                          ws \in WordSeqs(version, MaxWords - 1)}

Pending == [status |-> "pending", exc |-> "", value |-> <<>>]

IdleParse ==
    /\ p_version = MODERN
    /\ p_line = <<>>
    /\ p_tries = 0
    /\ p_outcome = Pending

InitParse ==
    /\ p_version \in TracerouteVersion
    /\ p_line \in LinePool(p_version)
    /\ p_tries \in TriesPool
    /\ p_outcome = Pending
    /\ IdleRun /\ file = NoFile /\ file_before = NoFile /\ tr_ver = MODERN
    /\ IdleView
    /\ IdleSave

\* the call parse_line(p_version, p_line, p_tries)
CallParseLine ==
    /\ p_outcome = Pending
    /\ p_outcome' = parse_line(p_version, p_line, p_tries)
    /\ UNCHANGED <<p_version, p_line, p_tries, runVars, viewVars, saveVars>>

NextParse == CallParseLine

SpecParse == InitParse /\ [][NextParse]_vars

(***************************************************************************)
(* Spec: traceroute.py run again and again against one output file.        *)
(***************************************************************************)
Init ==
    /\ IdleParse
    /\ IdleView
    /\ IdleSave
    /\ IdleRun
    /\ tr_ver \in TracerouteVersion
    /\ file \in {NoFile, EarlierFile}
    /\ file_before = file

Next ==
    \/ \E host \in Hosts, tries \in RunTriesPool :
          StartRun(host, tries) /\ UNCHANGED <<parseVars, viewVars, saveVars>>
    \/ \E line \in BannerPool :
          ReadBanner(line) /\ UNCHANGED <<parseVars, viewVars, saveVars>>
    \/ \E line \in HopLinePool(tr_ver) :
          ReadHopLine(line) /\ UNCHANGED <<parseVars, viewVars, saveVars>>
    \/ SaveToFile /\ UNCHANGED <<parseVars, viewVars, saveVars>>

Spec == Init /\ [][Next]_vars


(***************************************************************************)
(* SpecStats: the statistics of a file traceroute.py has written.          *)
(***************************************************************************)
\* the run object save_to_file writes for a run of these hops
StoredRun(host, hops) ==
    JsonDumpRun(to_json(Cmd(INETUTILS, host, 2), BannerOk, hops,
                        TimestampText(0), 1, 0))

\* the hop of index i as parse_line returns it for two probes: none, one or
\* both answered
HopKinds == {"none", "one", "both"}

StatHopLine(i, kind) ==
    Join(<<IntToStr(i)>>
         \o (IF kind = "none" THEN <<W_star, W_star>>
             ELSE IF kind = "one"
             THEN <<W_ipA, <<"1", ".", "5", "m", "s">>, W_star>>
             ELSE <<W_ipA, <<"1", "m", "s">>, <<"3", "m", "s">>>>))

StatHop(i, kind) == parse_line(INETUTILS, StatHopLine(i, kind), 2).value

\* the runs of the stores, each the kinds of its hops in order: the run that
\* printed no hop line, the runs of one hop and the runs of two hops
StatRunKinds ==
    {<<>>}
    \cup {<<k>> : k \in HopKinds}
    \cup {<<k, l>> : k \in HopKinds, l \in HopKinds}

\* the hops of a run from index 1 on, and of a run of one hop of index 2
\* (--first-hop 2)
StatHopsPool ==
    {[i \in 1..Len(ks) |-> StatHop(i, ks[i])] : ks \in StatRunKinds}
    \cup {<<StatHop(2, k)>> : k \in HopKinds}

\* the runs of host h and the run of host g a file is made of
StatRunsOfH == {StoredRun(<<"h">>, hops) : hops \in StatHopsPool}

StatRunOfG == StoredRun(<<"g">>, <<StatHop(1, "both")>>)

RECURSIVE RunSeqs(_)
RunSeqs(n) ==
    IF n = 0 THEN {<<>>}
    ELSE {Append(rs, run) : rs \in RunSeqs(n - 1), run \in StatRunsOfH}

\* a file with 1 to MaxStatRuns runs of host h and one run of host g
StatStores ==
    {(<<"h">> :> rs) @@ (<<"g">> :> <<StatRunOfG>>) :
        rs \in UNION {RunSeqs(n) : n \in 1..MaxStatRuns}}

InitStats ==
    /\ IdleParse
    /\ IdleRun /\ file = NoFile /\ file_before = NoFile /\ tr_ver = INETUTILS
    /\ IdleSave
    /\ data \in StatStores
    /\ v_out = NoCall

NextStats ==
    \/ \E hostname \in {None} \cup Hosts :
          PrintStats(hostname) /\ UNCHANGED <<parseVars, runVars, saveVars>>
    \/ \E hostname \in {None} \cup Hosts :
          GraphTable(hostname) /\ UNCHANGED <<parseVars, runVars, saveVars>>

SpecStats == InitStats /\ [][NextStats]_vars

(***************************************************************************)
(* SpecMap: the map of a file traceroute.py has written.                   *)
(***************************************************************************)
W_nameB == <<"b">>
W_time == <<W_float, W_ms>>

\* the hop line of index i the modern traceroute prints for two probes: no
\* answer, answers from address A (unnamed, named a, named b), from address
\* B, and one answer from each of A and B
MapHopLine(i, kind) ==
    Join(<<IntToStr(i)>>
         \o (IF kind = "none" THEN <<W_star, W_star>>
             ELSE IF kind = "A"
             THEN <<W_ipA, Paren(W_ipA)>> \o W_time \o W_time
             ELSE IF kind = "Aa"
             THEN <<W_name, Paren(W_ipA)>> \o W_time \o W_time
             ELSE IF kind = "Ab"
             THEN <<W_nameB, Paren(W_ipA)>> \o W_time \o W_time
             ELSE IF kind = "B"
             THEN <<W_ipB, Paren(W_ipB)>> \o W_time \o W_time
             ELSE <<W_ipA, Paren(W_ipA)>> \o W_time
                  \o <<W_ipB, Paren(W_ipB)>> \o W_time))

MapHop(i, kind) == parse_line(MODERN, MapHopLine(i, kind), 2).value

\* the runs of the stores, each the kinds of its hops in order; the run of
\* no hop is the run that printed no hop line
MapRunKinds ==
    {<<>>,
     <<"none">>,
     <<"none", "B">>,
     <<"none", "none", "B">>,
     <<"A", "B">>,
     <<"Aa", "B">>,
     <<"Ab", "B">>,
     <<"B", "Aa">>,
     <<"A", "none", "B">>,
     <<"A", "none", "A">>,
     <<"AB", "none", "A">>,
     <<"AB", "none">>,
     <<"B", "none", "A">>}

MapRun(host, ks) ==
    JsonDumpRun(to_json(Cmd(MODERN, host, 2), BannerOk,
                        [i \in 1..Len(ks) |-> MapHop(i, ks[i])],
                        TimestampText(0), 1, 0))

\* the runs of host h and of host g a file is made of
MapRunsOfH == {MapRun(<<"h">>, ks) : ks \in MapRunKinds}

MapRunsOfG ==
    {MapRun(<<"g">>, ks) : ks \in {<<"none", "A">>, <<"Ab", "none", "B">>,
                                    <<"none", "A", "none", "B">>}}

RECURSIVE MapRunSeqs(_)
MapRunSeqs(n) ==
    IF n = 0 THEN {<<>>}
    ELSE {Append(rs, run) : rs \in MapRunSeqs(n - 1), run \in MapRunsOfH}

\* a file with 1 to MaxMapRuns runs of host h and one run of host g
MapStores ==
    {(<<"h">> :> rs) @@ (<<"g">> :> <<run>>) :
        rs \in UNION {MapRunSeqs(n) : n \in 1..MaxMapRuns},
        run \in MapRunsOfG}

InitMap ==
    /\ IdleParse
    /\ IdleRun /\ file = NoFile /\ file_before = NoFile /\ tr_ver = MODERN
    /\ IdleSave
    /\ data \in MapStores
    /\ v_out = NoCall

NextMap ==
    \E hostname \in {None} \cup Hosts :
        GraphMap(hostname) /\ UNCHANGED <<parseVars, runVars, saveVars>>

SpecMap == InitMap /\ [][NextMap]_vars

(***************************************************************************)
(* SpecSave: two runs, each completed, saved by two processes.             *)
(***************************************************************************)
\* the completed run of a process: one hop, the timestamp the process's own
SaveRunOf(p, host) ==
    [host |-> host,
     obj |-> JsonDumpRun(to_json(Cmd(MODERN, host, 2), BannerOk,
                                 <<MapHop(1, "A")>>,
                                 TimestampText(IF p = "p" THEN 1 ELSE 2),
                                 1, 0))]

InitSave ==
    /\ IdleParse
    /\ IdleView
    /\ IdleRun /\ tr_ver = MODERN
    /\ file \in {NoFile, EarlierFile}
    /\ file_before = file
    /\ s_mutex \in BOOLEAN
    /\ s_pc = [p \in SaveProcs |-> "start"]
    /\ s_run \in {[p \in SaveProcs |-> SaveRunOf(p, hosts[p])] :
                     hosts \in [SaveProcs -> Hosts]}
    /\ s_prev = [p \in SaveProcs |-> <<>>]

NextSave ==
    \/ \E p \in SaveProcs :
          SaveRead(p) /\ UNCHANGED <<parseVars, runRest, viewVars>>
    \/ \E p \in SaveProcs :
          SaveOpenWrite(p) /\ UNCHANGED <<parseVars, runRest, viewVars>>
    \/ \E p \in SaveProcs :
          SaveDump(p) /\ UNCHANGED <<parseVars, runRest, viewVars>>

SpecSave == InitSave /\ [][NextSave]_vars

(***************************************************************************)
(* Claims about parse_line (SpecParse).                                    *)
(***************************************************************************)
p_words == Words(p_line)
p_called == p_outcome # Pending
p_returned == p_outcome.status = "returned"
p_raised == p_outcome.status = "raised"
p_record == p_outcome.value

\* the words after the first that satisfy a predicate of the word
CountWords(words, Test(_)) ==
    Cardinality({i \in 2..Len(words) : Test(words[i])})

IsStar(word) == word = W_star
\* a word the loop takes as a timing sample under p_version
IsSample(word) ==
    ~IsStar(word) /\ ~is_ipv4(p_version, word) /\ is_time(p_version, word)
\* a word the loop takes as an address under p_version
IsAddress(word) == ~IsStar(word) /\ is_ipv4(p_version, word)
\* a word the loop takes as a name under p_version
IsName(word) ==
    /\ ~IsStar(word) /\ ~is_ipv4(p_version, word)
    /\ ~is_time(p_version, word) /\ is_hostname(p_version, word)

p_stars == CountWords(p_words, IsStar)
p_samples == CountWords(p_words, IsSample)

NoRepeat(l) == \A i, j \in 1..Len(l) : l[i] = l[j] => i = j

\* C1: for a line whose first word is an integer, parse_line returns a record
\* exactly when the words taken as timing samples plus the "*" words number
\* expected_tries; a returned record has len(results) + number of "*" equal
\* to expected_tries, and in every other case the call raises.
C1_ProbeAccounting ==
    (p_called /\ p_words # <<>> /\ IsInt(p_words[1])) =>
        /\ p_returned <=> (p_samples + p_stars = p_tries)
        /\ p_returned => Len(p_record["results"]) + p_stars = p_tries
        /\ (p_samples + p_stars # p_tries) => p_raised

C1_Witness ==
    /\ p_called /\ p_returned
    /\ Len(p_record["results"]) >= 1
    /\ p_stars >= 1

\* C2: a returned record that carries a hostname together with addresses has
\* exactly one address and a hostname different from it; with more than one
\* address recorded the record carries no hostname.
C2_HostnameUnambiguous ==
    (p_called /\ p_returned /\ HasKey(p_record, "ip_address")) =>
        /\ HasKey(p_record, "hostname") =>
              /\ Len(p_record["ip_address"]) = 1
              /\ p_record["hostname"] # p_record["ip_address"][1]
        /\ Len(p_record["ip_address"]) > 1 => ~HasKey(p_record, "hostname")

\* a line with a name and two distinct addresses was parsed
C2_Witness ==
    /\ p_called /\ p_returned
    /\ CountWords(p_words, IsName) >= 1
    /\ HasKey(p_record, "ip_address")
    /\ Len(p_record["ip_address"]) = 2
    /\ p_record["ip_address"][1] # p_record["ip_address"][2]
    /\ ~HasKey(p_record, "hostname")
    /\ p_stars + p_samples >= 1

\* C3: under both versions the returned address list never holds the same
\* address twice, however often the address word appears on the line.
C3_NoRepeatedAddress ==
    (p_called /\ p_returned /\ HasKey(p_record, "ip_address")) =>
        NoRepeat(p_record["ip_address"])

\* C4: parse_line raises whenever the first word is not a non-negative
\* integer, otherwise the first word is the index; no returned record has a
\* negative index.
C4_IndexNonNegative ==
    (p_called /\ p_words # <<>>) =>
        /\ ~(IsInt(p_words[1]) /\ IntVal(p_words[1]) >= 0) => p_raised
        /\ p_returned => /\ p_record["index"] = IntVal(p_words[1])
                         /\ p_record["index"] >= 0


(***************************************************************************)
(* Claims about the runs and the output file (Spec).                       *)
(***************************************************************************)
\* the host's array of runs in a JSON object, empty when the host is not in it
HistoryOf(json, host) == IF HasKey(json, host) THEN json[host] ELSE <<>>

\* C5: save_to_file is a pure append: after a save the host's stored history
\* is its history from before the run with exactly one run object added at
\* the end, and the histories of the other hosts are as they were.
C5_PureAppend ==
    r_pc = "saved" =>
        LET before == LoadFile(file_before)
            after  == LoadFile(file)
            old    == HistoryOf(before, r_host)
        IN /\ file.exists
           /\ DOMAIN after = DOMAIN before \cup {r_host}
           /\ \A h \in DOMAIN before \ {r_host} : after[h] = before[h]
           /\ Len(after[r_host]) = Len(old) + 1
           /\ SubSeq(after[r_host], 1, Len(old)) = old
           /\ after[r_host][Len(old) + 1].cmd = Join(r_cmd)

\* a run with hops was saved to a file that held runs of this host and of
\* another
C5_Witness ==
    /\ r_pc = "saved"
    /\ r_result # <<>>
    /\ HistoryOf(LoadFile(file_before), r_host) # <<>>
    /\ \E h \in DOMAIN LoadFile(file_before) : h # r_host

\* C6: a run ended by a fatal condition (unresolved host in the banner, an
\* invalid argument line, a hop line that does not parse) appends nothing:
\* the file is what it was when the run started.
C6_AbortLeavesStore ==
    r_exc # "" => (file = file_before /\ r_pc = "aborted")

\* a hop line failed to parse after a hop was parsed, the file holding runs
C6_Witness ==
    /\ r_pc = "aborted"
    /\ r_exc = "RuntimeError"
    /\ r_result # <<>>
    /\ file.exists
    /\ file = file_before

(***************************************************************************)
(* Claims about the statistics (SpecStats).                                *)
(***************************************************************************)
v_called == v_out.status # "pending"

\* the groups of samples a call takes the statistics of: print_stats the
\* total over all hops of all runs, graph_table the total of each host or,
\* for one host, each hop position
GroupsOf(fn, arg) ==
    IF fn = "print_stats"
    THEN <<Flatten(IF arg = None THEN AllDelays(data, get_hostnames(data))
                   ELSE get_hostname_entry_delays(data, arg))>>
    ELSE IF arg = None
    THEN [i \in 1..Len(get_hostnames(data)) |->
             Flatten(get_hostname_entry_delays(data, get_hostnames(data)[i]))]
    ELSE get_hostname_entry_delays(data, arg)

v_groups == GroupsOf(v_out.fn, v_out.arg)

v_stats_call == v_called /\ v_out.fn \in {"print_stats", "graph_table"}

\* C7: a group with zero samples yields the no-data outcome and never an
\* arithmetic failure: print_stats of a target whose total has no sample
\* prints "No data", graph_table gives each group without a sample the row
\* of dashes, and neither raises (calls with a group of exactly one sample
\* are left to C8).
C7_EmptyGroupNoData ==
    (/\ v_stats_call
     /\ \E i \in 1..Len(v_groups) : v_groups[i] = <<>>
     /\ \A i \in 1..Len(v_groups) : Len(v_groups[i]) # 1) =>
        /\ v_out.status = "returned"
        /\ v_out.fn = "print_stats" => v_out.value.no_data
        /\ v_out.fn = "graph_table" =>
              \A i \in 1..Len(v_groups) :
                  v_groups[i] = <<>> =>
                      /\ v_out.value[i].rcvd = 0
                      /\ v_out.value[i].stats = NoStats

\* C8: a group of exactly one sample is reported with count 1, mean, min and
\* max equal to the sample and a standard deviation that is not rendered as
\* the number zero, and the call does not raise.
C8_SingleSampleReported ==
    (v_stats_call /\ \E i \in 1..Len(v_groups) : Len(v_groups[i]) = 1) =>
        /\ v_out.status = "returned"
        /\ v_out.fn = "print_stats" =>
              /\ v_out.value.average = FloatStr(v_groups[1][1])
              /\ v_out.value.best = FloatStr(v_groups[1][1])
              /\ v_out.value.worst = FloatStr(v_groups[1][1])
              /\ v_out.value.stdev # FloatStr(0)
        /\ v_out.fn = "graph_table" =>
              \A i \in 1..Len(v_groups) :
                  Len(v_groups[i]) = 1 =>
                      /\ v_out.value[i].rcvd = 1
                      /\ \A k \in 1..3 :
                            v_out.value[i].stats[k] = FloatStr(v_groups[i][1])
                      /\ v_out.value[i].stats[4] # FloatStr(0)

(***************************************************************************)
(* Claims about the map (SpecMap).                                         *)
(***************************************************************************)
m_called == v_out.fn = "graph_map"
m_graph == v_out.value

\* the hops of the runs the call merged (data is the store after the call)
m_hops ==
    LET hostnames == MergedHosts(data, v_out.arg)
    IN UNION {UNION {{data[hostnames[h]][e].data.value[i] :
                         i \in 1..Len(data[hostnames[h]][e].data.value)} :
                     e \in {x \in 1..Len(data[hostnames[h]]) :
                               data[hostnames[h]][x].data.type = "list"}} :
              h \in 1..Len(hostnames)}

\* the hostnames the merged runs record with an address
NamesOf(ip) ==
    {hop["hostname"] :
        hop \in {x \in m_hops :
                    /\ HasKey(x, "hostname")
                    /\ \E k \in 1..Len(x["ip_address"]) :
                          x["ip_address"][k] = ip}}

m_ips == UNION {{hop["ip_address"][k] : k \in 1..Len(hop["ip_address"])} :
                   hop \in m_hops}

m_nodes == UNION {{b.tail, b.head} : b \in m_graph.body}

\* C9: a node of the merged graph carries a hostname label only if its
\* address is recorded with exactly one hostname in the merged runs; an
\* address recorded with two hostnames is left unlabelled.
C9_ConflictUnlabelled ==
    m_called =>
        \A ip \in m_ips :
            \A name \in NamesOf(ip) :
                Labelled(ip, name) \in m_nodes => NamesOf(ip) = {name}

\* C10: within one merge a placeholder node made for an unobserved hop of one
\* run appears in no edge drawn for another run, for a first hop and for a
\* hop after the same predecessor address alike.
C10_PlaceholderNotShared ==
    m_called =>
        \A p \in m_graph.made :
            \A b \in m_graph.drawn :
                p.node \in {b.tail, b.head} => b.run = p.run

(***************************************************************************)
(* Claims about the stored form of a run (Spec).                           *)
(***************************************************************************)
\* the value read back for a field of the run that was saved
r_back(key) ==
    json_round_trip(PyField(to_json(r_cmd, r_description, r_result,
                                    r_timestamp, r_seconds, now), key))

\* C11: a completed run written with to_json and read back is the run field
\* for field: description and timestamp are read back as the same strings,
\* time_taken_in_secs as the same float and data as the same list of hops.
C11_RoundTrip ==
    (r_pc = "saved" /\ r_result # <<>>) =>
        /\ r_back("description").py = "str"
        /\ r_back("description").v = r_description
        /\ r_back("timestamp").py = "str"
        /\ r_back("timestamp").v = r_timestamp
        /\ r_back("time_taken_in_secs").py = "float"
        /\ r_back("time_taken_in_secs").v = r_seconds
        /\ r_back("data").py = "list"
        /\ r_back("data").v = r_result

(***************************************************************************)
(* Claims about the grouping of the samples (SpecStats).                   *)
(***************************************************************************)
\* the hops of the runs of a host whose data is a list
HopsOfHost(d, hostname) ==
    UNION {{d[hostname][e].data.value[i] :
               i \in 1..Len(d[hostname][e].data.value)} :
           e \in {x \in 1..Len(d[hostname]) :
                     d[hostname][x].data.type = "list"}}

\* how often x is in the list l
CountIn(l, x) == Cardinality({i \in 1..Len(l) : l[i] = x})

\* the samples of the hops of index k over the runs of the host, in the order
\* of the runs
RECURSIVE SamplesOfIndex(_, _)
SamplesOfIndex(hops, k) ==
    IF hops = <<>> THEN <<>>
    ELSE (IF Head(hops)["index"] = k THEN Head(hops)["results"] ELSE <<>>)
         \o SamplesOfIndex(Tail(hops), k)

\* the group get_hostname_entry_delays returns for hop index k, empty when
\* the list has no such group
GroupOfIndex(groups, k) == IF k \in 1..Len(groups) THEN groups[k] ELSE <<>>

\* C12: for the target of a call, the group get_hostname_entry_delays gives
\* for hop index k holds exactly the samples of the hops whose index field is
\* k over all runs of the target with list data, whatever the hop counts and
\* first hop indices of the runs; a run without a hop of index k adds nothing
\* to the group.
C12_GroupedByIndex ==
    (v_stats_call /\ v_out.arg # None) =>
        LET groups == get_hostname_entry_delays(data, v_out.arg)
            runs_hops == Flatten([e \in 1..Len(get_entries(data, v_out.arg)) |->
                                    get_entries(data, v_out.arg)[e].data.value])
            ks == {hop["index"] : hop \in HopsOfHost(data, v_out.arg)}
                  \cup (1..Len(groups))
        IN \A k \in ks :
              LET got == GroupOfIndex(groups, k)
                  want == SamplesOfIndex(runs_hops, k)
              IN /\ Len(got) = Len(want)
                 /\ \A i \in 1..Len(want) :
                       CountIn(got, want[i]) = CountIn(want, want[i])

(***************************************************************************)
(* Claims about the store under graph_map (SpecMap).                       *)
(***************************************************************************)
\* C13: graph_map leaves the store as it was: after the call every stored run
\* has the hops and the address fields it had before, and the host lists read
\* from the store afterwards are the ones read before.
C13_StoreUnchanged ==
    [][/\ data' = data
       /\ \A h \in DOMAIN data :
             get_hostname_entry_hosts(data', h, TRUE)
                = get_hostname_entry_hosts(data, h, TRUE)]_vars

(***************************************************************************)
(* Claims about the placeholder of one hop (SpecMap).                      *)
(***************************************************************************)
\* the nodes made or taken for hop i of a run during the call
m_nodes_for(run, i) ==
    {m.node : m \in {x \in m_graph.made \cup m_graph.reused :
                        x.run = run /\ x.hop = i}}

\* the hops after the first that had no address when the call reached them
\* and follow a hop with several addresses, as <<host, position, hop>>
m_gaps ==
    {g \in UNION {UNION {{<<h, e, i>> :
                             i \in 2..Len(data[h][e].data.value)} :
                         e \in {x \in 1..Len(data[h]) :
                                   data[h][x].data.type = "list"}} :
                  h \in DOMAIN data} :
        /\ m_nodes_for(<<g[1], g[2]>>, g[3]) # {}
        /\ Len(data[g[1]][g[2]].data.value[g[3] - 1]["ip_address"]) > 1}

\* C15: within one run, a hop without addresses after a hop with several
\* addresses is one placeholder node: one node is made or taken for the hop,
\* never a second one made, and every address of the hop before has an edge
\* to that node (with the target's tag when the hop is the run's last),
\* whatever placeholders earlier runs of the merge made.
C15_OnePlaceholderPerGap ==
    m_called =>
        \A g \in m_gaps :
            LET run == <<g[1], g[2]>>
                hops == data[g[1]][g[2]].data.value
                before == hops[g[3] - 1]["ip_address"]
            IN /\ Cardinality(m_nodes_for(run, g[3])) = 1
               /\ Cardinality({m \in m_graph.made :
                                  m.run = run /\ m.hop = g[3]}) <= 1
               /\ hops[g[3]]["ip_address"] \in
                     {<<n>> : n \in m_nodes_for(run, g[3])}
               /\ \A k \in 1..Len(before) :
                     \A n \in m_nodes_for(run, g[3]) :
                         \E b \in m_graph.drawn :
                             /\ b.tail = before[k]
                             /\ b.head = IF g[3] = Len(hops)
                                         THEN Tagged(n, g[1]) ELSE n

\* a hop without addresses after a hop with two addresses was given the node
\* an earlier run of the merge had made
C15_Witness ==
    /\ m_called
    /\ \E g \in m_gaps :
          \E m \in m_graph.made :
              /\ m.run # <<g[1], g[2]>>
              /\ m.node \in m_nodes_for(<<g[1], g[2]>>, g[3])

(***************************************************************************)
(* Claims about concurrent saves (SpecSave).                               *)
(***************************************************************************)
s_finished == \A p \in SaveProcs : s_pc[p] \in {"done", "failed"}

\* the file is a JSON document that holds the run of the process
s_kept(p) ==
    /\ file.exists /\ ~NotJson(file)
    /\ HasKey(file.json, s_run[p].host)
    /\ \E k \in 1..Len(file.json[s_run[p].host]) :
          file.json[s_run[p].host][k] = s_run[p].obj

\* C14: save_to_file does not serialize its read-modify-write cycle: when
\* the two saves are mutually excluded, both processes finish their save and
\* the final file holds both runs and what it held before; without the
\* exclusion a final file that lacks one of the two runs is reachable
\* (C14_Witness).
C14_ExcludedSavesKeepBoth ==
    (s_mutex /\ s_finished) =>
        /\ \A p \in SaveProcs : s_pc[p] = "done" /\ s_kept(p)
        /\ \A h \in DOMAIN LoadFile(file_before) :
              /\ HasKey(file.json, h)
              /\ SubSeq(file.json[h], 1, Len(LoadFile(file_before)[h]))
                    = LoadFile(file_before)[h]

\* without exclusion both processes finished their save and the file, a JSON
\* document, lacks the run of one of them
C14_Witness ==
    /\ ~s_mutex
    /\ \A p \in SaveProcs : s_pc[p] = "done"
    /\ file.exists /\ ~NotJson(file)
    /\ \E p \in SaveProcs : ~s_kept(p)
    /\ \E p \in SaveProcs : s_kept(p)

=============================================================================
